---- MODULE Spec2Model ----
(***************************************************************************)
(* Model of the TPM2 unseal pipeline of booster's init (tpm2Unseal,        *)
(* policyPCRSession, openTPM) in its two revisions, src/init/tpm.go and    *)
(* src/unnamed/part_001, and of the TPM readiness gate (tpmAwaitReady).    *)
(*                                                                         *)
(* One unseal attempt is a sequential program; every call it makes on the  *)
(* device is one action whose outcome (accepted / rejected) is chosen by   *)
(* the device.  Deferred calls are kept on a stack and run one by one when *)
(* the function returns.                                                   *)
(***************************************************************************)
EXTENDS Integers, Sequences, FiniteSets, TLC

\* ------------------------------------------------------------------ bounds
MaxWaiters == 2
MaxTime == 5
MaxProbers == 2

\* --------------------------------------------------------------- constants
\* tpm2.HandleNull: the handle policyPCRSession returns with an error.
HandleNull == 0

\* const PBKDF2_HMAC_SHA256_ITERATIONS = 10000
PBKDF2_HMAC_SHA256_ITERATIONS == 10000

\* time.Second*3, the timeout tpmAwaitReady passes to waitTimeout; before it,
\* a timeout one second too long.
AwaitTimeoutLong == 3 + 1
AwaitTimeout == 3

\* The two revisions of tpm.go.
Revisions == {"init_tpm", "part_001"}

\* ------------------------------------------------------------- byte values
\* A nil or empty byte slice.
Nil == << >>

\* PCR indices and the values a PCR can hold; "V" is the seal-time value.
PCRIndices == {0, 7}
PCRValues == {"V", "W"}
SealPCR == [i \in PCRIndices |-> "V"]

\* The pcrs []int argument.
Selections == {<< >>, <<7>>, <<0, 7>>}
Banks == {"SHA1", "SHA256"}
Salts == {"S1", "S2"}
SealSalt == "S1"

\* Passwords: the sealing-time password and wrong ones.  In the init_tpm
\* revision the password is read as a U16Bytes (2-byte big-endian size, then
\* the body).
SealPassword == <<0, 1, 7>>
Passwords == {<<0, 1, 7>>, <<0, 1, 8>>, <<0, 1, 7, 9>>, <<7>>, << >>}

\* The secret the sealing operation put into the blob.
Secret == <<"k", "e", "y">>

RangeOf(s) == {s[i] : i \in 1..Len(s)}

\* ------------------------------------------------------------------ digests
\* A digest is its length and the chain of assertions hashed into it: the
\* policy digest of a session is a hash chain over the assertions, in order.
EmptyBytes == [len |-> 0, chain |-> << >>]
ZeroDigest == [len |-> 32, chain |-> << >>]
ForeignDigest ==
    [len |-> 32,
     chain |-> <<[kind |-> "Foreign", sel |-> {}, bank |-> "", vals |-> {}]>>]

\* What TPM2_PolicyPCR hashes into the session digest: the selection, the
\* bank and the current values of the selected PCRs.
PolicyPCRElem(pcrs, bank, live) ==
    [kind |-> "PolicyPCR", sel |-> RangeOf(pcrs), bank |-> bank,
     vals |-> {<<i, live[i]>> : i \in RangeOf(pcrs)}]

\* What TPM2_PolicyPassword hashes into the session digest.
PolicyPasswordElem ==
    [kind |-> "PolicyPassword", sel |-> {}, bank |-> "", vals |-> {}]

Extend(d, e) == [len |-> 32, chain |-> Append(d.chain, e)]

\* bytes.Equal(policy, expectedDigest); before it, two faulty comparisons:
\* one that never reports a difference, one that compares lengths only.
BytesEqualAlways(a, b) == TRUE
BytesEqualLen(a, b) == a.len = b.len
BytesEqual(a, b) == a = b

\* if len(pcrs) > 0 { PolicyPCR }   (part_001)
\* PolicyPCR is called unconditionally (init_tpm)
\* Before it, the faulty variant that asserts the PCR predicate in every
\* session of either revision.
PcrAssertAlways(r, pcrs) == TRUE
PcrAssertNeeded(r, pcrs) == r = "init_tpm" \/ Len(pcrs) > 0

\* usePassword: password != nil; before it, the faulty variant that asserts
\* the password predicate in every session.
UsePasswordAlways(a) == TRUE
UsePassword(a) == a.havePassword

\* ------------------------------------------------- authorization values
\* An authorization value as presented to (or stored in) the module.
EmptyAuth ==
    [kind |-> "empty", pw |-> Nil, salt |-> "", iter |-> 0, len |-> 0, bank |-> ""]

\* pbkdf2.Key(password, salt, iter, keyLen, sha256.New): a function of
\* exactly its arguments, taken to be collision free.
Pbkdf2Key(password, salt, iter, keyLen) ==
    [kind |-> "pbkdf2", pw |-> password, salt |-> salt, iter |-> iter,
     len |-> keyLen, bank |-> ""]

\* base64.StdEncoding.EncodeToString(hmac): injective, and never the bytes
\* it encodes.
Base64Encode(v) == [v EXCEPT !.kind = "base64:" \o v.kind]

\* buffer.TPMUnmarshal(bytes.NewBuffer(password)): a 2-byte big-endian size,
\* then exactly that many bytes are read; what follows them is not read.
U16Size(p) == p[1] * 256 + p[2]
U16Ok(p) == Len(p) >= 2 /\ Len(p) - 2 >= U16Size(p)
U16Body(p) == SubSeq(p, 3, 2 + U16Size(p))

\* tpm2.Hash(dev, bank, buffer, objectHandle), then string(digest).
HashOf(bank, buffer) ==
    [kind |-> "hash", pw |-> buffer, salt |-> "", iter |-> 0, len |-> 0,
     bank |-> bank]

\* The auth value each revision prepares before the unseal command:
\*   part_001: base64(pbkdf2(password, salt, 10000, 32)), always;
\*   init_tpm: the U16Bytes body of the password, which the device hashes next.
\* Before AuthPrep, the faulty variant that passes the bank where the salt
\* belongs.
AuthPrepOk(r, a) == r = "part_001" \/ U16Ok(a.password)
AuthPrepWrongSalt(r, a) ==
    Base64Encode(Pbkdf2Key(a.password, a.bank, PBKDF2_HMAC_SHA256_ITERATIONS, 32))
AuthPrep(r, a) ==
    IF r = "part_001"
    THEN Base64Encode(Pbkdf2Key(a.password, a.salt, PBKDF2_HMAC_SHA256_ITERATIONS, 32))
    ELSE [kind |-> "u16bytes", pw |-> U16Body(a.password), salt |-> "", iter |-> 0,
          len |-> 0, bank |-> ""]

\* ------------------------------------------------ the sealing side (input)
\* The chain a matching sealing implementation recorded: the same
\* assertions as the unsealing revision makes, over the seal-time PCR values.
SealChain(r, pcrs, bank, reqPw) ==
    (IF PcrAssertNeeded(r, pcrs) THEN <<PolicyPCRElem(pcrs, bank, SealPCR)>> ELSE << >>)
    \o (IF reqPw THEN <<PolicyPasswordElem>> ELSE << >>)
SealDigest(r, pcrs, bank, reqPw) == [len |-> 32, chain |-> SealChain(r, pcrs, bank, reqPw)]

\* The auth value a matching sealing implementation gave the sealed object.
SealAuth(r, bank, reqPw) ==
    IF ~reqPw THEN EmptyAuth
    ELSE IF r = "part_001"
         THEN [kind |-> "base64:pbkdf2", pw |-> SealPassword, salt |-> SealSalt,
               iter |-> 10000, len |-> 32, bank |-> ""]
         ELSE [kind |-> "hash", pw |-> <<7>>, salt |-> "", iter |-> 0, len |-> 0,
               bank |-> bank]

\* ------------------------------------------------------------ key templates
\* FlagFixedTPM | FlagFixedParent | FlagSensitiveDataOrigin | FlagUserWithAuth
\* | FlagRestricted | FlagDecrypt | FlagNoDA
SRKAttributes ==
    {"FixedTPM", "FixedParent", "SensitiveDataOrigin", "UserWithAuth",
     "Restricted", "Decrypt", "NoDA"}

\* defaultSymScheme: AES, 128 bits, CFB.
defaultSymScheme == [alg |-> "AES", keyBits |-> 128, mode |-> "CFB"]
NoSymScheme == [alg |-> "", keyBits |-> 0, mode |-> ""]

\* tpm2.Public{}: the zero template.
EmptyTemplate ==
    [type |-> "", nameAlg |-> "", attrs |-> {}, sym |-> NoSymScheme,
     keyBits |-> 0, curve |-> "", modulusLen |-> 0]

\* tpm2.Public{Type: AlgRSA, ..., RSAParameters: defaultRSAParams}
RSATemplate ==
    [type |-> "RSA", nameAlg |-> "SHA256", attrs |-> SRKAttributes,
     sym |-> defaultSymScheme, keyBits |-> 2048, curve |-> "", modulusLen |-> 0]

\* tpm2.Public{Type: AlgECC, ..., ECCParameters: defaultECCParams}
ECCTemplate ==
    [type |-> "ECC", nameAlg |-> "SHA256", attrs |-> SRKAttributes,
     sym |-> defaultSymScheme, keyBits |-> 0, curve |-> "NIST_P256", modulusLen |-> 0]

\* The names getSRKTemplate is applied to.
AlgNames == {"rsa", "ecc", "", "RSA", "aes", "ecdsa"}

\* func getSRKTemplate(encryptAlg string) (tpm2.Public, error); before it, the
\* faulty variant whose default arm hands out the RSA template.
getSRKTemplateDefaulting(encryptAlg) ==
    CASE encryptAlg = "ecc" -> [tpl |-> ECCTemplate, err |-> "nil"]
      [] OTHER -> [tpl |-> RSATemplate, err |-> "nil"]
getSRKTemplate(encryptAlg) ==
    CASE encryptAlg = "rsa" -> [tpl |-> RSATemplate, err |-> "nil"]
      [] encryptAlg = "ecc" -> [tpl |-> ECCTemplate, err |-> "nil"]
      [] OTHER -> [tpl |-> EmptyTemplate, err |-> "UnsupportedAlgorithm"]

\* The srkTemplate literal tpm2Unseal builds, whatever encryptAlg is: RSA
\* with AES-128-CFB; the init_tpm revision also sets ModulusRaw to 256 bytes.
SrkTemplateUsed(r, a) ==
    [RSATemplate EXCEPT !.modulusLen = IF r = "init_tpm" THEN 256 ELSE 0]

\* The names parsePCRBank is applied to.
BankNames == {"sha1", "sha256", "", "SHA1", "sha384", "md5"}

\* func parsePCRBank(bank string) tpm2.Algorithm; before it, the faulty
\* variant that maps unknown names to SHA-1.
parsePCRBankSha1Default(bank) ==
    CASE bank = "sha256" -> "SHA256"
      [] OTHER -> "SHA1"
parsePCRBank(bank) ==
    CASE bank = "sha1" -> "SHA1"
      [] bank = "sha256" -> "SHA256"
      [] OTHER -> "SHA256"

\* ------------------------------------------------------------------- state
VARIABLES
    rev,         \* the revision of tpm.go that runs
    args,        \* the arguments of tpm2Unseal
    sealed,      \* what the sealing operation fixed: [reqPw]
    livePCR,     \* the platform's current PCR values
    pc,          \* position in tpm2Unseal / policyPCRSession
    chan,        \* the channel dev: "none", "open" or "closed"
    handles,     \* module handles created and not flushed
    nextHandle,  \* the next handle the module hands out
    sessDigest,  \* the policy digest of the session inside the module
    sessHandle, srkHandle, objectHandle,   \* locals of tpm2Unseal
    policy,      \* the digest PolicyGetDigest returned
    auth,        \* the authorization value prepared for the unseal command
    authSent,    \* the authorization value the unseal command carried
    defers,      \* the stack of deferred calls of tpm2Unseal
    ret,         \* what tpm2Unseal returns: [secret, err]
    log,         \* every operation issued, in order: [op, h1, h2, ok]
    ready,       \* the readiness gate (tpmReadyWg is done)
    clock,       \* seconds since start
    readyAt,     \* when the watcher signalled, -1 before
    waiter,      \* per caller of tpmAwaitReady: [st, start, retAt, result]
    srkTemplate, \* the template tpm2Unseal passed to CreatePrimary
    algName, bankName,       \* inputs of getSRKTemplate and parsePCRBank
    tplResult, bankResult,   \* what they returned: [done, ...]
    fpc,         \* per caller of IsFido2: its position
    fdev,        \* the Device's field d.dev: 0 (nil) or the owner of the handle
    fmutex,      \* the holder of the Device's mutex, 0 when free
    fopen,       \* the callers between fido_dev_open and fido_dev_close
    fracy        \* the callers that accessed d.dev without holding the mutex

unsealVars ==
    <<rev, args, sealed, livePCR, pc, chan, handles, nextHandle, sessDigest,
      sessHandle, srkHandle, objectHandle, policy, auth, authSent, defers, ret, log,
      srkTemplate>>
gateVars == <<ready, clock, readyAt, waiter>>
pureVars == <<algName, bankName, tplResult, bankResult>>
fidoVars == <<fpc, fdev, fmutex, fopen, fracy>>
vars == <<unsealVars, gateVars, pureVars, fidoVars>>

Waiters == 1..MaxWaiters

Args ==
    [pcrs : Selections, bank : Banks,
     policyHash : {"sealed", "empty", "foreign"},
     havePassword : BOOLEAN, password : Passwords, salt : Salts,
     encryptAlg : {"rsa", "ecc"}]

\* The expectedDigest bytes the caller passes: the digest recorded at seal
\* time, an empty digest, or a digest of some other policy.
ExpectedDigest ==
    CASE args.policyHash = "sealed" ->
            SealDigest(rev, args.pcrs, args.bank, sealed.reqPw)
      [] args.policyHash = "empty" -> EmptyBytes
      [] OTHER -> ForeignDigest

InitGateVars ==
    /\ ready = FALSE
    /\ clock = 0
    /\ readyAt = -1
    /\ waiter = [w \in Waiters |-> [st |-> "idle", start |-> 0, retAt |-> 0, result |-> FALSE]]

InitLocals ==
    /\ pc = "openTPM"
    /\ chan = "none"
    /\ handles = {}
    /\ nextHandle = 1
    /\ sessDigest = ZeroDigest
    /\ sessHandle = HandleNull
    /\ srkHandle = HandleNull
    /\ objectHandle = HandleNull
    /\ policy = EmptyBytes
    /\ auth = EmptyAuth
    /\ authSent = EmptyAuth
    /\ defers = << >>
    /\ ret = [secret |-> Nil, err |-> "pending"]
    /\ log = << >>
    /\ srkTemplate = EmptyTemplate

InitPure ==
    /\ algName = "rsa"
    /\ bankName = "sha256"
    /\ tplResult = [done |-> FALSE, tpl |-> EmptyTemplate, err |-> "nil"]
    /\ bankResult = [done |-> FALSE, alg |-> ""]

Probers == 1..MaxProbers

InitFido ==
    /\ fpc = [p \in Probers |-> "idle"]
    /\ fdev = 0
    /\ fmutex = 0
    /\ fopen = {}
    /\ fracy = {}

\* A nil password is the absent password: password != nil is havePassword.
\* The init_tpm revision of tpm2Unseal has no encryptAlg parameter.
Init ==
    /\ rev \in Revisions
    /\ args \in {a \in Args : /\ ~a.havePassword => a.password = Nil
                              /\ rev = "init_tpm" => a.encryptAlg = "rsa"}
    /\ sealed \in [reqPw : BOOLEAN]
    /\ livePCR \in [PCRIndices -> PCRValues]
    /\ InitLocals
    /\ InitGateVars
    /\ InitPure
    /\ InitFido

\* ------------------------------------------------------------ the pipeline
Entry(op, h1, h2, ok) == [op |-> op, h1 |-> h1, h2 |-> h2, ok |-> ok]

\* defer f(): deferred calls run last-registered-first when the function
\* returns; before it, the faulty first-registered-first order.
PushDeferFifo(stack, d) == Append(stack, d)
PushDefer(stack, d) == <<d>> \o stack

\* The module serves a command only on an open channel and on live handles.
DevServes(hs) == chan = "open" /\ hs \subseteq handles

\* return nil, err: the deferred calls run next.  Before it, the faulty
\* variant that records the error and goes on to the unseal command.
FailIgnored(err) ==
    /\ ret' = [secret |-> Nil, err |-> err]
    /\ pc' = "Unseal"
Fail(err) ==
    /\ ret' = [secret |-> Nil, err |-> err]
    /\ pc' = "return"

\* openTPM, and defer dev.Close() in tpm2Unseal.  When the manufacturer query
\* fails the error is returned and dev is not closed.
OpenTPM ==
    /\ pc = "openTPM"
    /\ \E dialOk \in BOOLEAN, manuOk \in BOOLEAN :
          IF ~dialOk
          THEN /\ log' = Append(log, Entry("Open", HandleNull, HandleNull, FALSE))
               /\ Fail("TransportError")
               /\ UNCHANGED <<chan, defers>>
          ELSE /\ chan' = "open"
               /\ log' = log \o <<Entry("Open", HandleNull, HandleNull, TRUE),
                                  Entry("GetManufacturer", HandleNull, HandleNull, manuOk)>>
               /\ IF manuOk
                  THEN /\ defers' = PushDefer(defers, [fn |-> "Close", h |-> HandleNull])
                       /\ pc' = "StartAuthSession"
                       /\ UNCHANGED ret
                  ELSE /\ Fail("NotAModule")
                       /\ UNCHANGED defers
    /\ UNCHANGED <<rev, args, sealed, livePCR, handles, nextHandle, sessDigest,
                   sessHandle, srkHandle, objectHandle, policy, auth, authSent>>
    /\ UNCHANGED <<srkTemplate, gateVars, pureVars, fidoVars>>

\* policyPCRSession: tpm2.StartAuthSession.
StartAuthSession ==
    /\ pc = "StartAuthSession"
    /\ \E ok \in {TRUE, FALSE} :
          /\ ok => DevServes({})
          /\ IF ok
             THEN /\ sessHandle' = nextHandle
                  /\ nextHandle' = nextHandle + 1
                  /\ handles' = handles \cup {nextHandle}
                  /\ sessDigest' = ZeroDigest
                  /\ log' = Append(log, Entry("StartAuthSession", nextHandle, HandleNull, TRUE))
                  /\ pc' = "PolicyPCR"
                  /\ UNCHANGED ret
             ELSE /\ log' = Append(log, Entry("StartAuthSession", HandleNull, HandleNull, FALSE))
                  /\ Fail("TransportError")
                  /\ UNCHANGED <<sessHandle, nextHandle, handles, sessDigest>>
    /\ UNCHANGED <<rev, args, sealed, livePCR, chan, srkHandle, objectHandle,
                   policy, auth, authSent, defers>>
    /\ UNCHANGED <<srkTemplate, gateVars, pureVars, fidoVars>>

\* policyPCRSession: tpm2.PolicyPCR(dev, sessHandle, nil, pcrSelection).  On
\* an error the function returns HandleNull; the session is not flushed.
PolicyPCR ==
    /\ pc = "PolicyPCR"
    /\ IF PcrAssertNeeded(rev, args.pcrs)
       THEN \E ok \in {TRUE, FALSE} :
               /\ ok => DevServes({sessHandle})
               /\ log' = Append(log, Entry("PolicyPCR", sessHandle, HandleNull, ok))
               /\ IF ok
                  THEN /\ sessDigest' =
                            Extend(sessDigest, PolicyPCRElem(args.pcrs, args.bank, livePCR))
                       /\ pc' = "PolicyPassword"
                       /\ UNCHANGED <<ret, sessHandle>>
                  ELSE /\ Fail("BindPCRFailed")
                       /\ sessHandle' = HandleNull
                       /\ UNCHANGED sessDigest
       ELSE /\ pc' = "PolicyPassword"
            /\ UNCHANGED <<log, sessDigest, ret, sessHandle>>
    /\ UNCHANGED <<rev, args, sealed, livePCR, chan, handles, nextHandle,
                   srkHandle, objectHandle, policy, auth, authSent, defers>>
    /\ UNCHANGED <<srkTemplate, gateVars, pureVars, fidoVars>>

\* policyPCRSession: if usePassword { tpm2.PolicyPassword(dev, sessHandle) }.
PolicyPassword ==
    /\ pc = "PolicyPassword"
    /\ IF UsePassword(args)
       THEN \E ok \in {TRUE, FALSE} :
               /\ ok => DevServes({sessHandle})
               /\ log' = Append(log, Entry("PolicyPassword", sessHandle, HandleNull, ok))
               /\ IF ok
                  THEN /\ sessDigest' = Extend(sessDigest, PolicyPasswordElem)
                       /\ pc' = "PolicyGetDigest"
                       /\ UNCHANGED <<ret, sessHandle>>
                  ELSE /\ Fail("PasswordPolicyRejected")
                       /\ sessHandle' = HandleNull
                       /\ UNCHANGED sessDigest
       ELSE /\ pc' = "PolicyGetDigest"
            /\ UNCHANGED <<log, sessDigest, ret, sessHandle>>
    /\ UNCHANGED <<rev, args, sealed, livePCR, chan, handles, nextHandle,
                   srkHandle, objectHandle, policy, auth, authSent, defers>>
    /\ UNCHANGED <<srkTemplate, gateVars, pureVars, fidoVars>>

\* policyPCRSession: policy, err = tpm2.PolicyGetDigest(dev, sessHandle).
PolicyGetDigest ==
    /\ pc = "PolicyGetDigest"
    /\ \E ok \in {TRUE, FALSE} :
          /\ ok => DevServes({sessHandle})
          /\ log' = Append(log, Entry("PolicyGetDigest", sessHandle, HandleNull, ok))
          /\ IF ok
             THEN /\ policy' = sessDigest
                  /\ pc' = "CompareDigest"
                  /\ UNCHANGED <<ret, sessHandle>>
             ELSE /\ Fail("GetDigestFailed")
                  /\ sessHandle' = HandleNull
                  /\ UNCHANGED policy
    /\ UNCHANGED <<rev, args, sealed, livePCR, chan, handles, nextHandle, sessDigest,
                   srkHandle, objectHandle, auth, authSent, defers>>
    /\ UNCHANGED <<srkTemplate, gateVars, pureVars, fidoVars>>

\* policyPCRSession: if !bytes.Equal(policy, expectedDigest) { return error },
\* else return sessHandle; then defer tpm2.FlushContext(dev, sessHandle).
CompareDigest ==
    /\ pc = "CompareDigest"
    /\ IF BytesEqual(policy, ExpectedDigest)
       THEN /\ defers' = PushDefer(defers, [fn |-> "FlushContext", h |-> sessHandle])
            /\ pc' = "CreatePrimary"
            /\ UNCHANGED <<ret, sessHandle>>
       ELSE /\ Fail("PolicyMismatch")
            /\ sessHandle' = HandleNull
            /\ UNCHANGED defers
    /\ UNCHANGED <<rev, args, sealed, livePCR, chan, handles, nextHandle, sessDigest,
                   srkHandle, objectHandle, policy, auth, authSent, log>>
    /\ UNCHANGED <<srkTemplate, gateVars, pureVars, fidoVars>>

\* tpm2.CreatePrimary(dev, tpm2.HandleOwner, ..., srkTemplate), then
\* defer tpm2.FlushContext(dev, srkHandle).
CreatePrimary ==
    /\ pc = "CreatePrimary"
    /\ srkTemplate' = SrkTemplateUsed(rev, args)
    /\ \E ok \in {TRUE, FALSE} :
          /\ ok => DevServes({})
          /\ IF ok
             THEN /\ srkHandle' = nextHandle
                  /\ nextHandle' = nextHandle + 1
                  /\ handles' = handles \cup {nextHandle}
                  /\ log' = Append(log, Entry("CreatePrimary", nextHandle, HandleNull, TRUE))
                  /\ defers' = PushDefer(defers, [fn |-> "FlushContext", h |-> nextHandle])
                  /\ pc' = "Load"
                  /\ UNCHANGED ret
             ELSE /\ log' = Append(log, Entry("CreatePrimary", HandleNull, HandleNull, FALSE))
                  /\ Fail("CreatePrimaryFailed")
                  /\ UNCHANGED <<srkHandle, nextHandle, handles, defers>>
    /\ UNCHANGED <<rev, args, sealed, livePCR, chan, sessDigest, sessHandle,
                   objectHandle, policy, auth, authSent>>
    /\ UNCHANGED <<gateVars, pureVars, fidoVars>>

\* tpm2.Load(dev, srkHandle, "", public, private), then
\* defer tpm2.FlushContext(dev, objectHandle).
Load ==
    /\ pc = "Load"
    /\ \E ok \in {TRUE, FALSE} :
          /\ ok => DevServes({srkHandle})
          /\ IF ok
             THEN /\ objectHandle' = nextHandle
                  /\ nextHandle' = nextHandle + 1
                  /\ handles' = handles \cup {nextHandle}
                  /\ log' = Append(log, Entry("Load", nextHandle, srkHandle, TRUE))
                  /\ defers' = PushDefer(defers, [fn |-> "FlushContext", h |-> nextHandle])
                  /\ pc' = "PrepareAuth"
                  /\ UNCHANGED ret
             ELSE /\ log' = Append(log, Entry("Load", HandleNull, srkHandle, FALSE))
                  /\ Fail("LoadRejected")
                  /\ UNCHANGED <<objectHandle, nextHandle, handles, defers>>
    /\ UNCHANGED <<rev, args, sealed, livePCR, chan, sessDigest, sessHandle,
                   srkHandle, policy, auth, authSent>>
    /\ UNCHANGED <<srkTemplate, gateVars, pureVars, fidoVars>>

\* part_001: hmac := pbkdf2.Key(...), base64 of it is the auth value.
\* init_tpm: buffer.TPMUnmarshal(bytes.NewBuffer(password)), an error return
\* when the password is not a well-formed U16Bytes.
PrepareAuth ==
    /\ pc = "PrepareAuth"
    /\ log' = Append(log, Entry("DeriveAuth", HandleNull, HandleNull, AuthPrepOk(rev, args)))
    /\ IF AuthPrepOk(rev, args)
       THEN /\ auth' = AuthPrep(rev, args)
            /\ pc' = IF rev = "part_001" THEN "Unseal" ELSE "Hash"
            /\ UNCHANGED ret
       ELSE /\ Fail("AuthUnmarshalFailed")
            /\ UNCHANGED auth
    /\ UNCHANGED <<rev, args, sealed, livePCR, chan, handles, nextHandle, sessDigest,
                   sessHandle, srkHandle, objectHandle, policy, authSent, defers>>
    /\ UNCHANGED <<srkTemplate, gateVars, pureVars, fidoVars>>

\* init_tpm: digest, _, err := tpm2.Hash(dev, bank, buffer, objectHandle).
Hash ==
    /\ pc = "Hash"
    /\ \E ok \in {TRUE, FALSE} :
          /\ ok => DevServes({objectHandle})
          /\ log' = Append(log, Entry("Hash", objectHandle, HandleNull, ok))
          /\ IF ok
             THEN /\ auth' = HashOf(args.bank, auth.pw)
                  /\ pc' = "Unseal"
                  /\ UNCHANGED ret
             ELSE /\ Fail("AuthHashFailed")
                  /\ UNCHANGED auth
    /\ UNCHANGED <<rev, args, sealed, livePCR, chan, handles, nextHandle, sessDigest,
                   sessHandle, srkHandle, objectHandle, policy, authSent, defers>>
    /\ UNCHANGED <<srkTemplate, gateVars, pureVars, fidoVars>>

\* What the module requires to release the sealed data: the session's policy
\* digest equals the object's policy, and, when the session asserted
\* PolicyPassword, the auth value presented equals the object's auth value.
UnsealAccepted(a) ==
    /\ DevServes({sessHandle, objectHandle})
    /\ sessDigest = SealDigest(rev, args.pcrs, args.bank, sealed.reqPw)
    /\ (\E i \in 1..Len(sessDigest.chain) : sessDigest.chain[i] = PolicyPasswordElem)
          => a = SealAuth(rev, args.bank, sealed.reqPw)

\* tpm2.UnsealWithSession(dev, sessHandle, objectHandle, auth); return unsealed, nil.
Unseal ==
    /\ pc = "Unseal"
    /\ authSent' = auth
    /\ \E ok \in {TRUE, FALSE} :
          /\ ok => UnsealAccepted(auth)
          /\ log' = Append(log, Entry("Unseal", sessHandle, objectHandle, ok))
          /\ IF ok
             THEN /\ ret' = [secret |-> Secret, err |-> "nil"]
                  /\ pc' = "return"
             ELSE Fail("UnsealRejected")
    /\ UNCHANGED <<rev, args, sealed, livePCR, chan, handles, nextHandle, sessDigest,
                   sessHandle, srkHandle, objectHandle, policy, auth, defers>>
    /\ UNCHANGED <<srkTemplate, gateVars, pureVars, fidoVars>>

\* One deferred call runs: tpm2.FlushContext(dev, h) or dev.Close().  The
\* error of a deferred call is dropped.
RunDeferred ==
    /\ pc = "return"
    /\ defers # << >>
    /\ LET d == Head(defers) IN
          IF d.fn = "Close"
          THEN /\ chan' = "closed"
               /\ log' = Append(log, Entry("Close", HandleNull, HandleNull, chan = "open"))
               /\ UNCHANGED handles
          ELSE /\ log' = Append(log, Entry("FlushContext", d.h, HandleNull, DevServes({d.h})))
               /\ handles' = IF DevServes({d.h}) THEN handles \ {d.h} ELSE handles
               /\ UNCHANGED chan
    /\ defers' = Tail(defers)
    /\ UNCHANGED <<rev, args, sealed, livePCR, pc, nextHandle, sessDigest, sessHandle,
                   srkHandle, objectHandle, policy, auth, authSent, ret>>
    /\ UNCHANGED <<srkTemplate, gateVars, pureVars, fidoVars>>

\* tpm2Unseal has returned to its caller.
Return ==
    /\ pc = "return"
    /\ defers = << >>
    /\ pc' = "done"
    /\ UNCHANGED <<rev, args, sealed, livePCR, chan, handles, nextHandle, sessDigest,
                   sessHandle, srkHandle, objectHandle, policy, auth, authSent, defers,
                   ret, log>>
    /\ UNCHANGED <<srkTemplate, gateVars, pureVars, fidoVars>>

Next ==
    \/ OpenTPM
    \/ StartAuthSession
    \/ PolicyPCR
    \/ PolicyPassword
    \/ PolicyGetDigest
    \/ CompareDigest
    \/ CreatePrimary
    \/ Load
    \/ PrepareAuth
    \/ Hash
    \/ Unseal
    \/ RunDeferred
    \/ Return

Spec == Init /\ [][Next]_vars

\* ------------------------------------------------------ the readiness gate
\* waitTimeout(&tpmReadyWg, timeout): blocks until the wait group is done or
\* the timeout has elapsed; returns true when it timed out.
WaitOver(isReady, elapsed, timeout) == isReady \/ elapsed >= timeout
waitTimeout(isReady) == ~isReady

\* func tpmAwaitReady() bool { timedOut := waitTimeout(...); return !timedOut };
\* before it, the faulty variant that returns timedOut.
tpmAwaitReadyNegated(timedOut) == timedOut
tpmAwaitReady(timedOut) == ~timedOut

\* A caller enters tpmAwaitReady.
AwaitCall(w) ==
    /\ waiter[w].st \in {"idle", "returned"}
    /\ waiter' = [waiter EXCEPT ![w] = [st |-> "waiting", start |-> clock,
                                        retAt |-> 0, result |-> FALSE]]
    /\ UNCHANGED <<ready, clock, readyAt>>
    /\ UNCHANGED <<unsealVars, pureVars, fidoVars>>

\* tpmAwaitReady returns to its caller.
AwaitReturn(w) ==
    /\ waiter[w].st = "waiting"
    /\ WaitOver(ready, clock - waiter[w].start, AwaitTimeout)
    /\ waiter' = [waiter EXCEPT ![w].st = "returned", ![w].retAt = clock,
                                ![w].result = tpmAwaitReady(waitTimeout(ready))]
    /\ UNCHANGED <<ready, clock, readyAt>>
    /\ UNCHANGED <<unsealVars, pureVars, fidoVars>>

\* The device watcher sees a tpm device: tpmReadyWg.Done().
WatcherSignal ==
    /\ ~ready
    /\ ready' = TRUE
    /\ readyAt' = clock
    /\ UNCHANGED <<clock, waiter>>
    /\ UNCHANGED <<unsealVars, pureVars, fidoVars>>

\* A second passes.  A waiter whose wait is over returns before time moves on.
Tick ==
    /\ clock < MaxTime
    /\ \A w \in Waiters :
          waiter[w].st = "waiting" =>
             ~WaitOver(ready, clock - waiter[w].start, AwaitTimeout)
    /\ clock' = clock + 1
    /\ UNCHANGED <<ready, readyAt, waiter>>
    /\ UNCHANGED <<unsealVars, pureVars, fidoVars>>

InitGate ==
    /\ rev = "part_001"
    /\ args = [pcrs |-> <<7>>, bank |-> "SHA256", policyHash |-> "sealed",
               havePassword |-> FALSE, password |-> Nil, salt |-> SealSalt,
               encryptAlg |-> "rsa"]
    /\ sealed = [reqPw |-> FALSE]
    /\ livePCR = SealPCR
    /\ InitLocals
    /\ InitGateVars
    /\ InitPure
    /\ InitFido

NextGate ==
    \/ \E w \in Waiters : AwaitCall(w)
    \/ \E w \in Waiters : AwaitReturn(w)
    \/ WatcherSignal
    \/ Tick

SpecGate == InitGate /\ [][NextGate]_vars

\* ------------------------------------------------------------- properties
Issued(op) == \E i \in 1..Len(log) : log[i].op = op
IssuedOk(op) == \E i \in 1..Len(log) : log[i].op = op /\ log[i].ok
Count(op) == Cardinality({i \in 1..Len(log) : log[i].op = op})

\* The operations that are commands to the device (FlushContext and Close
\* are the release sequence).
DeviceOps ==
    {"Open", "GetManufacturer", "StartAuthSession", "PolicyPCR", "PolicyPassword",
     "PolicyGetDigest", "CreatePrimary", "Load", "Hash", "Unseal"}
NoDeviceFailure == \A i \in 1..Len(log) : log[i].op \in DeviceOps => log[i].ok
NoDeviceFailureBefore(op) ==
    \A i \in 1..Len(log) : log[i].op \in DeviceOps \ {op} => log[i].ok

\* The live value of some selected PCR differs from its seal-time value.
PcrChanged == \E i \in RangeOf(args.pcrs) : livePCR[i] # SealPCR[i]
\* The caller supplies what the policy asks for, with the seal-time password.
PasswordCorrect ==
    /\ args.havePassword = sealed.reqPw
    /\ sealed.reqPw => args.password = SealPassword /\ args.salt = SealSalt

\* C1: when tpm2Unseal has returned, on any exit path, no module handle
\* created during the attempt is left unflushed.
C1_NoHandleOutstanding == pc = "done" => handles = {}

\* C2: once the digest read back differs from the expected digest and the
\* comparison is made, the attempt is over: the policy-mismatch error, no
\* session handle returned, no primary key, no load, no auth value derived or
\* sent, no unseal command, no secret.
C2_MismatchIsHardStop ==
    (IssuedOk("PolicyGetDigest") /\ policy # ExpectedDigest /\ pc # "CompareDigest") =>
        /\ ret = [secret |-> Nil, err |-> "PolicyMismatch"]
        /\ sessHandle = HandleNull
        /\ ~Issued("CreatePrimary") /\ ~Issued("Load")
        /\ ~Issued("DeriveAuth") /\ ~Issued("Hash") /\ ~Issued("Unseal")
        /\ auth = EmptyAuth /\ authSent = EmptyAuth
C2_Witness ==
    pc = "done" /\ IssuedOk("PolicyGetDigest") /\ policy # ExpectedDigest

\* C3: nothing is issued with a handle after that handle was flushed, and
\* nothing is issued on the channel after it was closed.
C3_NoUseAfterRelease ==
    \A i \in 1..Len(log) : \A j \in (i + 1)..Len(log) :
        /\ (log[i].op = "FlushContext" /\ log[i].ok) => log[i].h1 \notin {log[j].h1, log[j].h2}
        /\ log[i].op # "Close"
C3_Witness ==
    /\ pc = "done" /\ IssuedOk("Unseal") /\ Count("FlushContext") = 3
    /\ chan = "closed"

\* C4: a policy sealed over a non-empty PCR selection, one selected PCR
\* changed: whatever the password input, no secret is returned and no unseal
\* command is issued, the attempt ends in an error, and that error is the
\* policy mismatch whenever the device let the session reach the comparison.
C4_ChangedPcrIsMismatch ==
    (args.policyHash = "sealed" /\ PcrChanged) =>
        /\ ret.secret = Nil
        /\ ~Issued("Unseal")
        /\ pc = "done" => ret.err # "nil"
        /\ (pc = "done" /\ IssuedOk("PolicyGetDigest")) => ret.err = "PolicyMismatch"
C4_Witness ==
    /\ pc = "done" /\ args.policyHash = "sealed" /\ PcrChanged
    /\ args.pcrs = <<0, 7>> /\ livePCR[0] = SealPCR[0]
    /\ args.havePassword /\ args.password = SealPassword /\ sealed.reqPw
    /\ ret.err = "PolicyMismatch"

\* C5: blob and digest from a matching sealing implementation, PCRs as at
\* seal time, the right password (or none for a measurement-only policy), no
\* device operation failing: tpm2Unseal returns the sealed secret and nil.
C5_UnsealReturnsSecret ==
    (/\ pc = "done"
     /\ args.policyHash = "sealed" /\ ~PcrChanged
     /\ PasswordCorrect
     /\ NoDeviceFailure)
    => ret = [secret |-> Secret, err |-> "nil"]

\* C6: a password-gated policy, the digest matched, a password other than
\* the sealing-time one, no earlier device failure: the attempt fails at the
\* unseal step.  Secret bytes are returned only when the unseal command
\* succeeded, and every error return carries a nil secret.
C6_WrongPasswordFailsAtUnseal ==
    /\ (/\ pc = "done"
        /\ sealed.reqPw /\ args.havePassword
        /\ IssuedOk("PolicyGetDigest") /\ policy = ExpectedDigest
        /\ args.policyHash = "sealed"
        /\ args.password # SealPassword
        /\ NoDeviceFailureBefore("Unseal"))
       => (Issued("Unseal") /\ ret.err = "UnsealRejected")
    /\ ret.secret # Nil => IssuedOk("Unseal")
    /\ ret.err \notin {"nil", "pending"} => ret.secret = Nil

\* C7: PolicyPassword is issued only when a password was supplied, and in
\* every session that got as far as reading its digest it was issued exactly
\* when a password was supplied; it goes to the handle StartAuthSession
\* returned, the same one as PolicyPCR, after PolicyPCR; each at most once.
C7_PasswordPredicate ==
    /\ Issued("PolicyPassword") => args.havePassword
    /\ Issued("PolicyGetDigest") => (Issued("PolicyPassword") <=> args.havePassword)
    /\ Count("PolicyPassword") <= 1 /\ Count("PolicyPCR") <= 1
    /\ \A j \in 1..Len(log) :
          log[j].op = "PolicyPassword" =>
             /\ \E i \in 1..(j - 1) :
                   log[i].op = "StartAuthSession" /\ log[i].ok /\ log[i].h1 = log[j].h1
             /\ \A i \in 1..Len(log) :
                   log[i].op = "PolicyPCR" => (i < j /\ log[i].h1 = log[j].h1)
C7_Witness ==
    /\ pc = "done" /\ IssuedOk("PolicyPCR") /\ IssuedOk("PolicyPassword")
    /\ IssuedOk("PolicyGetDigest")

\* C8: with no password supplied, no auth value is derived and the unseal
\* command carries the empty auth value.
C8_NoPasswordNoDerivation ==
    ~args.havePassword =>
        /\ ~Issued("DeriveAuth") /\ ~Issued("Hash")
        /\ Issued("Unseal") => authSent = EmptyAuth

\* C9: no caller of tpmAwaitReady is still waiting more than 3 seconds after
\* its call; a call returns within 3 seconds, false only at the timeout and
\* only if the watcher had not signalled before it, true only once signalled.
C9_AwaitBounded ==
    \A w \in Waiters :
        /\ waiter[w].st = "waiting" => clock - waiter[w].start <= 3
        /\ waiter[w].st = "returned" =>
              /\ waiter[w].retAt - waiter[w].start <= 3
              /\ ~waiter[w].result =>
                    /\ waiter[w].retAt - waiter[w].start = 3
                    /\ readyAt = -1 \/ readyAt >= waiter[w].start + 3
              /\ waiter[w].result => (ready /\ readyAt <= waiter[w].retAt)
C9_Witness ==
    \E w, v \in Waiters :
        /\ waiter[w].st = "returned" /\ ~waiter[w].result
        /\ waiter[v].st = "returned" /\ waiter[v].result
        /\ waiter[v].start < readyAt

\* C10: the gate, once set, stays set; a waiter that returns while it is set
\* returns true, whether it was blocked when the watcher signalled or called
\* later; and no time passes while the gate is set and a waiter is blocked.
C10_OneShotBroadcast ==
    [][/\ ready => ready'
       /\ \A w \in Waiters :
             (ready /\ waiter[w].st = "waiting" /\ waiter'[w].st = "returned")
                => waiter'[w].result
       /\ (ready /\ \E w \in Waiters : waiter[w].st = "waiting") => clock' = clock]_vars
C10_Witness ==
    \E w, v \in Waiters :
        /\ ready
        /\ waiter[w].st = "returned" /\ waiter[w].result
        /\ waiter[w].start < readyAt /\ waiter[w].retAt = readyAt
        /\ waiter[v].st = "returned" /\ waiter[v].result
        /\ waiter[v].start > readyAt

\* ------------------------------------------- properties of the pipeline, II
\* C11: the root key of an attempt is created from the template of the
\* algorithm the caller selected (part_001, which takes encryptAlg).
C11_TemplateFollowsAlgorithm ==
    (rev = "part_001" /\ Issued("CreatePrimary")) =>
        srkTemplate.type = getSRKTemplate(args.encryptAlg).tpl.type

\* The session has passed the PCR step of policyPCRSession.
PastPcrStep ==
    IssuedOk("StartAuthSession") /\ pc \notin {"PolicyPCR"}
HasPcrElem ==
    \E i \in 1..Len(sessDigest.chain) : sessDigest.chain[i].kind = "PolicyPCR"

\* C13 as stated: PolicyPCR is issued if and only if the PCR selection is
\* non-empty, and with an empty selection the digest chain has no PCR element.
C13_PcrIffNonEmpty ==
    PastPcrStep =>
        /\ Issued("PolicyPCR") <=> Len(args.pcrs) > 0
        /\ Len(args.pcrs) = 0 => ~HasPcrElem

\* C13 amended: in part_001 PolicyPCR is issued if and only if the selection
\* is non-empty; in init_tpm it is issued in every session, so with an empty
\* selection the chain holds a PCR element over the empty selection.  The
\* chain holds a PCR element exactly when the module accepted PolicyPCR.
C13_PcrPerRevision ==
    PastPcrStep =>
        /\ Issued("PolicyPCR") <=> (rev = "init_tpm" \/ Len(args.pcrs) > 0)
        /\ HasPcrElem <=> IssuedOk("PolicyPCR")
C13_Witness ==
    /\ pc = "done" /\ rev = "init_tpm" /\ args.pcrs = << >>
    /\ IssuedOk("PolicyPCR") /\ HasPcrElem

\* C14: in part_001 the auth value the unseal command carries is
\* base64(PBKDF2-HMAC-SHA256(password, salt, 10000, 32)): a function of the
\* password and the salt alone, the same for any PCR selection, bank,
\* algorithm, blob and expected digest.
C14_AuthFromPasswordAndSalt ==
    (rev = "part_001" /\ Issued("Unseal")) =>
        authSent = [kind |-> "base64:pbkdf2", pw |-> args.password, salt |-> args.salt,
                    iter |-> 10000, len |-> 32, bank |-> ""]
C14_Witness ==
    /\ pc = "done" /\ rev = "part_001" /\ Issued("Unseal")
    /\ args.havePassword /\ args.password = SealPassword
    /\ args.salt = "S2" /\ args.bank = "SHA1" /\ args.encryptAlg = "ecc"

\* The place of each operation in the pipeline; the release sequence is last.
Rank(op) ==
    CASE op = "Open" -> 1
      [] op = "GetManufacturer" -> 2
      [] op = "StartAuthSession" -> 3
      [] op = "PolicyPCR" -> 4
      [] op = "PolicyPassword" -> 5
      [] op = "PolicyGetDigest" -> 6
      [] op = "CreatePrimary" -> 7
      [] op = "Load" -> 8
      [] op = "DeriveAuth" -> 9
      [] op = "Hash" -> 10
      [] op = "Unseal" -> 11
      [] OTHER -> 12
IsRelease(op) == op \in {"FlushContext", "Close"}

\* C15: the operations of an attempt are issued in the pipeline's order, each
\* at most once and only after every earlier one succeeded (the root key only
\* after the digest compared equal); after a failure only flushes and the
\* close follow.
C15_LinearPipeline ==
    /\ \A i \in 1..Len(log) : \A j \in (i + 1)..Len(log) :
          /\ Rank(log[i].op) < Rank(log[j].op)
                \/ (IsRelease(log[i].op) /\ IsRelease(log[j].op))
          /\ ~IsRelease(log[j].op) => log[i].ok
          /\ (~IsRelease(log[i].op) /\ ~log[i].ok) => IsRelease(log[j].op)
    /\ Issued("CreatePrimary") => (IssuedOk("PolicyGetDigest") /\ policy = ExpectedDigest)
C15_Witness ==
    /\ pc = "done" /\ Issued("Load") /\ ~IssuedOk("Load")
    /\ Count("FlushContext") = 2 /\ Count("Close") = 1

\* C16: when tpm2Unseal has returned, the handles it held were flushed
\* innermost-acquired-first, every flush came before the close, and the
\* channel the attempt opened was closed exactly once.
C16_ReleaseOrder ==
    pc = "done" =>
        /\ \A i \in 1..Len(log) : \A j \in (i + 1)..Len(log) :
              /\ (log[i].op = "FlushContext" /\ log[j].op = "FlushContext")
                    => log[i].h1 > log[j].h1
              /\ log[i].op = "Close" => log[j].op # "FlushContext"
        /\ IssuedOk("Open") => (Count("Close") = 1 /\ chan = "closed")

\* C17: with an empty expected digest the comparison does not fail the
\* session: once the digest is read, policyPCRSession returns the session.
C17_EmptyDigestSkipsCheck ==
    (args.policyHash = "empty" /\ IssuedOk("PolicyGetDigest") /\ pc # "CompareDigest") =>
        /\ ret.err # "PolicyMismatch"
        /\ sessHandle # HandleNull

\* openTPM returned an error.
OpenFailed == Issued("Open") /\ ~(IssuedOk("Open") /\ IssuedOk("GetManufacturer"))

\* C20: openTPM connects at most once and returns either the open channel or
\* an error; when it returns an error, no channel it opened is still open.
C20_OpenTPMChannelOrError ==
    /\ Count("Open") <= 1 /\ Count("GetManufacturer") <= 1
    /\ OpenFailed =>
          /\ ret.err \in {"TransportError", "NotAModule"}
          /\ chan # "open"
    /\ (Issued("Open") /\ ~OpenFailed /\ pc # "done") => chan \in {"open", "closed"}

\* ------------------------------------------- getSRKTemplate, parsePCRBank
\* getSRKTemplate(algName) is called and returns.
CallGetSRKTemplate ==
    /\ ~tplResult.done
    /\ tplResult' = [done |-> TRUE, tpl |-> getSRKTemplate(algName).tpl,
                     err |-> getSRKTemplate(algName).err]
    /\ UNCHANGED <<algName, bankName, bankResult>>
    /\ UNCHANGED <<unsealVars, gateVars, fidoVars>>

\* parsePCRBank(bankName) is called and returns.
CallParsePCRBank ==
    /\ ~bankResult.done
    /\ bankResult' = [done |-> TRUE, alg |-> parsePCRBank(bankName)]
    /\ UNCHANGED <<algName, bankName, tplResult>>
    /\ UNCHANGED <<unsealVars, gateVars, fidoVars>>

InitFunctions ==
    /\ rev = "part_001"
    /\ args = [pcrs |-> <<7>>, bank |-> "SHA256", policyHash |-> "sealed",
               havePassword |-> FALSE, password |-> Nil, salt |-> SealSalt,
               encryptAlg |-> "rsa"]
    /\ sealed = [reqPw |-> FALSE]
    /\ livePCR = SealPCR
    /\ InitLocals
    /\ InitGateVars
    /\ InitFido
    /\ algName \in AlgNames
    /\ bankName \in BankNames
    /\ tplResult = [done |-> FALSE, tpl |-> EmptyTemplate, err |-> "nil"]
    /\ bankResult = [done |-> FALSE, alg |-> ""]

NextFunctions ==
    \/ CallGetSRKTemplate
    \/ CallParsePCRBank

SpecFunctions == InitFunctions /\ [][NextFunctions]_vars

\* C18: getSRKTemplate returns the RSA template for "rsa" and the
\* elliptic-curve template for "ecc", both with the same seven attributes,
\* SHA-256 name algorithm and AES-128-CFB scheme, and an error with no
\* template for every other name.
C18_SRKTemplate ==
    tplResult.done =>
        /\ algName = "rsa" =>
              /\ tplResult.err = "nil"
              /\ tplResult.tpl.type = "RSA" /\ tplResult.tpl.keyBits = 2048
        /\ algName = "ecc" =>
              /\ tplResult.err = "nil"
              /\ tplResult.tpl.type = "ECC" /\ tplResult.tpl.curve = "NIST_P256"
        /\ algName \notin {"rsa", "ecc"} =>
              /\ tplResult.err # "nil"
              /\ tplResult.tpl.type = "" /\ tplResult.tpl.attrs = {}
        /\ tplResult.err = "nil" =>
              /\ tplResult.tpl.nameAlg = "SHA256"
              /\ tplResult.tpl.attrs =
                    {"FixedTPM", "FixedParent", "SensitiveDataOrigin", "UserWithAuth",
                     "Restricted", "Decrypt", "NoDA"}
              /\ tplResult.tpl.sym = [alg |-> "AES", keyBits |-> 128, mode |-> "CFB"]
C18_Witness ==
    tplResult.done /\ algName = "RSA" /\ tplResult.err = "UnsupportedAlgorithm"

\* C19: parsePCRBank always returns an algorithm: SHA-1 for "sha1", SHA-256
\* for "sha256" and for every other name, the empty one included.
C19_ParsePCRBank ==
    bankResult.done =>
        /\ bankResult.alg \in {"SHA1", "SHA256"}
        /\ bankResult.alg = "SHA1" <=> bankName = "sha1"
C19_Witness ==
    bankResult.done /\ bankName = "" /\ bankResult.alg = "SHA256"

\* ------------------------------------------------ the FIDO2 device probe
\* Another caller is about to write d.dev as well.
Racing(p) == \E q \in Probers \ {p} : fpc[q] \in {"opened", "locked"}

\* A caller holds the mutex or not when it touches d.dev.
Touch(p) == IF fmutex = p THEN fracy ELSE fracy \cup {p}

\* IsFido2 -> openFido2Device: dev := C.fido_dev_new(); C.fido_dev_open(dev, path).
\* On an error openFido2Device and IsFido2 return it.
FidoOpen(p) ==
    /\ fpc[p] = "idle"
    /\ \E ok \in {TRUE, FALSE} :
          IF ok
          THEN /\ fopen' = fopen \cup {p}
               /\ fpc' = [fpc EXCEPT ![p] = "opened"]
          ELSE /\ fpc' = [fpc EXCEPT ![p] = "done"]
               /\ UNCHANGED fopen
    /\ UNCHANGED <<fdev, fmutex, fracy>>
    /\ UNCHANGED <<unsealVars, gateVars, pureVars>>

\* openFido2Device: d.dev = dev, the mutex not taken.  A write that races
\* with another write of d.dev leaves either value.
FidoStore(p) ==
    /\ fpc[p] = "opened"
    /\ fdev' \in (IF Racing(p) THEN {p, fdev} ELSE {p})
    /\ fracy' = Touch(p)
    /\ fpc' = [fpc EXCEPT ![p] = "stored"]
    /\ UNCHANGED <<fmutex, fopen>>
    /\ UNCHANGED <<unsealVars, gateVars, pureVars>>

\* IsFido2: isFido2 := bool(C.fido_dev_is_fido2(dev)); the deferred
\* closeFido2Device(dev) runs next.
FidoQuery(p) ==
    /\ fpc[p] = "stored"
    /\ fpc' = [fpc EXCEPT ![p] = "queried"]
    /\ UNCHANGED <<fdev, fmutex, fopen, fracy>>
    /\ UNCHANGED <<unsealVars, gateVars, pureVars>>

\* closeFido2Device: d.Lock()
FidoLock(p) ==
    /\ fpc[p] = "queried"
    /\ fmutex = 0
    /\ fmutex' = p
    /\ fpc' = [fpc EXCEPT ![p] = "locked"]
    /\ UNCHANGED <<fdev, fopen, fracy>>
    /\ UNCHANGED <<unsealVars, gateVars, pureVars>>

\* closeFido2Device: d.dev = nil; d.Unlock()
FidoClear(p) ==
    /\ fpc[p] = "locked"
    /\ fdev' \in (IF Racing(p) THEN {0, fdev} ELSE {0})
    /\ fracy' = Touch(p)
    /\ fmutex' = 0
    /\ fpc' = [fpc EXCEPT ![p] = "unlocked"]
    /\ UNCHANGED fopen
    /\ UNCHANGED <<unsealVars, gateVars, pureVars>>

\* closeFido2Device: C.fido_dev_close(dev); C.fido_dev_free(&dev); IsFido2 returns.
FidoClose(p) ==
    /\ fpc[p] = "unlocked"
    /\ fopen' = fopen \ {p}
    /\ fpc' = [fpc EXCEPT ![p] = "done"]
    /\ UNCHANGED <<fdev, fmutex, fracy>>
    /\ UNCHANGED <<unsealVars, gateVars, pureVars>>

\* The caller calls IsFido2 on the same Device again.
FidoAgain(p) ==
    /\ fpc[p] = "done"
    /\ fpc' = [fpc EXCEPT ![p] = "idle"]
    /\ UNCHANGED <<fdev, fmutex, fopen, fracy>>
    /\ UNCHANGED <<unsealVars, gateVars, pureVars>>

InitProbe ==
    /\ rev = "part_001"
    /\ args = [pcrs |-> <<7>>, bank |-> "SHA256", policyHash |-> "sealed",
               havePassword |-> FALSE, password |-> Nil, salt |-> SealSalt,
               encryptAlg |-> "rsa"]
    /\ sealed = [reqPw |-> FALSE]
    /\ livePCR = SealPCR
    /\ InitLocals
    /\ InitGateVars
    /\ InitPure
    /\ InitFido

NextProbe ==
    \/ \E p \in Probers : FidoOpen(p)
    \/ \E p \in Probers : FidoStore(p)
    \/ \E p \in Probers : FidoQuery(p)
    \/ \E p \in Probers : FidoLock(p)
    \/ \E p \in Probers : FidoClear(p)
    \/ \E p \in Probers : FidoClose(p)
    \/ \E p \in Probers : FidoAgain(p)

SpecProbe == InitProbe /\ [][NextProbe]_vars

\* C12: at most one IsFido2 call on a Device is between its open and its
\* close at any time, and d.dev is read or written only with the mutex held.
C12_ProbeSerialized ==
    /\ Cardinality(fopen) <= 1
    /\ fracy = {}

====
